---- MODULE Spec2Model ----
(***************************************************************************)
(* TrendRadar enrichment plugins.                                          *)
(*                                                                         *)
(*   stock_association.py  StockAssociator: keyword table -> related       *)
(*                         stocks / industry sectors of a news title       *)
(*   mcp_enhance.py        annotate_news_with_ai, add_ai_html_blocks       *)
(*                                                                         *)
(* Python strings are sequences of one-character strings.  TLA+ strings    *)
(* are ASCII, so the Chinese dictionary keys of the source are written     *)
(* with these names:                                                       *)
(*   "stock_code" 股票代码    "stock_name" 股票名称   "keywords" 关联关键词 *)
(*   "sector_name" 板块名称   "matched_keywords" 匹配关键词                 *)
(*   "strength" 匹配强度      "stock_table" 股票映射配置                    *)
(*   "industry_table" 行业板块映射                                          *)
(***************************************************************************)
EXTENDS Integers, Sequences, FiniteSets, TLC

VARIABLES
    \* ---- stock_association.py
    config_file,        \* what is stored at self.config_path
    stock_associator,   \* the module global _stock_associator
    heap,               \* the caller's and the callee's dict and list objects
    ret,                \* the call that has just ended, and how it ended
    \* ---- mcp_enhance.py, annotate_news_with_ai
    news_list,          \* the argument: one dict per item
    news_before,        \* the argument as it was when the call began
    pc,                 \* where the call stands
    i,                  \* the loop index of enumerate(news_list)
    annotated,          \* the list being built: indices into news_list
    returned,           \* what the call returned
    outcome,            \* the service's answer to the request in flight
    trace,              \* the requests and sleeps so far, in order
    \* ---- mcp_enhance.py, add_ai_html_blocks
    html_content,       \* the argument: the report's text
    news_groups,        \* the argument: groups of news items
    html_out            \* the call's result

vars == << config_file, stock_associator, heap, ret,
           news_list, news_before, pc, i, annotated, returned, outcome, trace,
           html_content, news_groups, html_out >>

assocVars == << config_file, stock_associator, heap, ret >>
annotVars == << news_list, news_before, pc, i, annotated, returned, outcome, trace >>
htmlVars  == << html_content, news_groups, html_out >>

(***************************************************************************)
(* Bounds of the model.                                                    *)
(***************************************************************************)
MaxTitleLen   == 2      \* characters of a title handed to a lookup
MaxStocks     == 4      \* entries of the stock table
MaxIndustries == 3      \* entries of the industry table
MaxStats      == 2      \* entries of a payload collection
MaxTitles     == 2      \* titles of one payload entry
MaxNews       == 3      \* items of the list handed to annotate_news_with_ai
MaxLines      == 2      \* lines of the report
MaxItems      == 2      \* news items of a group

(***************************************************************************)
(* Strings.                                                                *)
(***************************************************************************)
Chars == {"a", "b", "A"}

\* str.lower(), one character
LowerChar(c) == CASE c = "A" -> "a"
                  [] c = "B" -> "b"
                  [] OTHER   -> c

\* str.lower()
Lower(s) == [k \in 1..Len(s) |-> LowerChar(s[k])]

\* sub in s
Contains(sub, s) ==
    \E k \in 0..(Len(s) - Len(sub)) : SubSeq(s, k + 1, k + Len(sub)) = sub

\* F applied to the value of e, which is computed once
Bind(e, F(_)) == CHOOSE v \in {F(x) : x \in {e}} : TRUE

SeqsUpTo(S, n) == UNION {[1..m -> S] : m \in 0..n}

Titles == SeqsUpTo(Chars, MaxTitleLen)

(***************************************************************************)
(* The keyword file and StockAssociator._load_config.                      *)
(*                                                                         *)
(* A collection of the file is a JSON value: t says which ("list", "str",  *)
(* "int", "null"), v holds a list's entries or, for a string, one element  *)
(* per character.  An element is a JSON object, keys the set of keys it    *)
(* has, or something no key can be looked up in (Character).               *)
(***************************************************************************)
EmptyList == [t |-> "list", v |-> << >>]
Missing   == [t |-> "missing", v |-> << >>]

StockKeys    == {"stock_name", "stock_code", "keywords"}
IndustryKeys == {"sector_name", "keywords"}

Names == << "n1", "n2", "n3", "n4", "n5", "n6" >>

StockEntry(n, kws) ==
    [keys |-> StockKeys, stock_code |-> n, stock_name |-> Names[n], sector_name |-> "",
     keywords |-> kws]

IndustryEntry(n, kws) ==
    [keys |-> IndustryKeys, stock_code |-> 0, stock_name |-> "", sector_name |-> Names[n],
     keywords |-> kws]

KwAB   == << <<"a", "b">> >>                \* ["ab"]
KwA_b  == << <<"A">>, <<"b">> >>            \* ["A", "b"]
KwDup  == << <<"b">>, <<"b">> >>            \* ["b", "b"]

StockKeywordLists    == {KwAB, KwA_b, KwDup}
IndustryKeywordLists == {KwAB, KwA_b}

StockTables ==
    {[t |-> "list", v |-> [n \in 1..Len(ks) |-> StockEntry(n, ks[n])]] :
        ks \in SeqsUpTo(StockKeywordLists, MaxStocks)}

IndustryTables ==
    {[t |-> "list", v |-> [n \in 1..Len(ks) |-> IndustryEntry(n, ks[n])]] :
        ks \in SeqsUpTo(IndustryKeywordLists, MaxIndustries)}

SmallStockTable    == [t |-> "list", v |-> << StockEntry(1, KwAB), StockEntry(2, KwA_b) >>]
SmallIndustryTable == [t |-> "list", v |-> << IndustryEntry(1, KwA_b) >>]

File(kind, st, ind) == [kind |-> kind, stock_table |-> st, industry_table |-> ind]

\* files that json.load reads as an object holding two lists of well-formed entries
WellFormedFiles ==
    {File("object", st, ind) : st \in StockTables, ind \in {SmallIndustryTable, Missing}}
    \cup {File("object", st, ind) : st \in {SmallStockTable, Missing}, ind \in IndustryTables}

\* a character of a string: stock["..."] raises TypeError on it
Character == [keys |-> {}, stock_code |-> 0, stock_name |-> "", sector_name |-> "",
              keywords |-> << >>]

\* an entry without its keyword list
BadStockEntry == [StockEntry(1, KwA_b) EXCEPT !.keys = {"stock_name", "stock_code"}]
BadIndustryEntry == [IndustryEntry(1, KwA_b) EXCEPT !.keys = {"sector_name"}]

\* no file, no JSON, JSON that is no object
UnreadableFiles ==
    {File("absent", Missing, Missing), File("invalid", Missing, Missing),
     File("array", Missing, Missing)}

\* a JSON object whose collections are not lists of well-formed entries
WrongShapeFiles ==
    {File("object", [t |-> "int", v |-> << >>], SmallIndustryTable),
     File("object", [t |-> "null", v |-> << >>], Missing),
     File("object", [t |-> "str", v |-> << Character, Character >>], SmallIndustryTable),
     File("object", [t |-> "str", v |-> << >>], Missing),
     File("object", SmallStockTable, [t |-> "int", v |-> << >>]),
     File("object", SmallStockTable, [t |-> "str", v |-> << Character >>]),
     File("object", [t |-> "list", v |-> << StockEntry(1, KwAB), BadStockEntry >>], Missing),
     File("object", SmallStockTable, [t |-> "list", v |-> << BadIndustryEntry >>])}

MalformedFiles == UnreadableFiles \cup WrongShapeFiles

NoAssociator == [exists |-> FALSE, stock_mappings |-> EmptyList, industry_mappings |-> EmptyList]

\* config.get(key, [])
GetOrEmpty(c) == IF c.t = "missing" THEN EmptyList ELSE c

\* StockAssociator.__init__ with _load_config: the two tables after construction
StockAssociator(file) ==
    IF file.kind = "object"
    THEN [exists |-> TRUE,
          stock_mappings |-> GetOrEmpty(file.stock_table),
          industry_mappings |-> GetOrEmpty(file.industry_table)]
    ELSE [exists |-> TRUE, stock_mappings |-> EmptyList, industry_mappings |-> EmptyList]

(***************************************************************************)
(* find_related_stocks, find_related_industries.                           *)
(***************************************************************************)
TopStocks == 3
TopIndustries == 2

Return(v) == [kind |-> "return", val |-> v]
Raise     == [kind |-> "raise", val |-> << >>]

\* the inner loop: the keywords found in the title, in the entry's order
MatchedKeywords(keywords, title) ==
    SelectSeq(keywords, LAMBDA kw : Contains(Lower(kw), Lower(title)))

\* list.sort(key=strength, reverse=True) inserts nothing before an equal element
InsertUnstable(sorted, x) ==
    LET n == Cardinality({k \in 1..Len(sorted) : sorted[k].strength > x.strength})
    IN  SubSeq(sorted, 1, n) \o << x >> \o SubSeq(sorted, n + 1, Len(sorted))

InsertByStrength(sorted, x) ==
    LET n == Cardinality({k \in 1..Len(sorted) : sorted[k].strength >= x.strength})
    IN  SubSeq(sorted, 1, n) \o << x >> \o SubSeq(sorted, n + 1, Len(sorted))

RECURSIVE SortByStrength(_)
SortByStrength(s) ==
    IF s = << >> THEN << >>
    ELSE InsertByStrength(SortByStrength(SubSeq(s, 1, Len(s) - 1)), s[Len(s)])

\* the whole list: the slice forgotten
TakeAll(s, n) == s

\* s[:n]
Take(s, n) == SubSeq(s, 1, IF Len(s) < n THEN Len(s) ELSE n)

\* the entries a loop over the table visits; a string yields its characters
Iterable(table) == table.t \in {"list", "str"}

\* an element whose subscripts raise: a character of a string, an object without a key
Subscriptable(table, e, keys) == table.t = "list" /\ keys \subseteq e.keys

Related(e, title) ==
    LET m == MatchedKeywords(e.keywords, title)
    IN  [stock_code |-> e.stock_code, stock_name |-> e.stock_name,
         sector_name |-> e.sector_name,
         matched_keywords |-> m, strength |-> Len(m)]

Qualifying(table, title) ==
    SelectSeq([k \in 1..Len(table.v) |-> Related(table.v[k], title)],
              LAMBDA r : r.matched_keywords # << >>)

find_related_stocks(table, title) ==
    IF ~Iterable(table) THEN Raise
    ELSE IF \E k \in 1..Len(table.v) : ~Subscriptable(table, table.v[k], StockKeys)
    THEN Raise
    ELSE Return(Take(SortByStrength(Qualifying(table, title)), TopStocks))

find_related_industries(table, title) ==
    IF ~Iterable(table) THEN Raise
    ELSE IF \E k \in 1..Len(table.v) : ~Subscriptable(table, table.v[k], IndustryKeys)
    THEN Raise
    ELSE Return(Take(SortByStrength(Qualifying(table, title)), TopIndustries))

(***************************************************************************)
(* The calls.                                                              *)
(***************************************************************************)
NoCall == [op |-> "none", arg |-> << >>, kind |-> "none", val |-> << >>, pre |-> << >>]

Call(op, arg, r, pre) == [op |-> op, arg |-> arg, kind |-> r.kind, val |-> r.val, pre |-> pre]

\* get_stock_associator(): the global is built on first use and kept
get_stock_associator ==
    IF stock_associator.exists THEN stock_associator ELSE StockAssociator(config_file)

GetStockAssociator ==
    /\ ~stock_associator.exists
    /\ stock_associator' = get_stock_associator
    /\ UNCHANGED << config_file, heap, ret >>

FindRelatedStocks ==
    /\ ret.op = "none"
    /\ stock_associator.exists
    /\ \E title \in Titles :
          ret' = Call("find_related_stocks", title,
                      find_related_stocks(stock_associator.stock_mappings, title), heap)
    /\ UNCHANGED << config_file, stock_associator, heap >>

FindRelatedIndustries ==
    /\ ret.op = "none"
    /\ stock_associator.exists
    /\ \E title \in Titles :
          ret' = Call("find_related_industries", title,
                      find_related_industries(stock_associator.industry_mappings, title), heap)
    /\ UNCHANGED << config_file, stock_associator, heap >>

(***************************************************************************)
(* The objects of a call: a dict (d: key -> value) or a list (l: the       *)
(* addresses of its elements).  An address is an index into heap.          *)
(***************************************************************************)
DictObj(d) == [kind |-> "dict", d |-> d, l |-> << >>]
ListObj(l) == [kind |-> "list", d |-> << >>, l |-> l]

\* title_data.get("title", "")
TitleOf(d) == IF "title" \in DOMAIN d THEN d.title ELSE << >>

\* updated_data = title_data: the copy forgotten, the fields set on the argument
associate_title_in_place(h, assoc, a) ==
    LET d  == h[a].d
        rs == find_related_stocks(assoc.stock_mappings, TitleOf(d))
        ri == find_related_industries(assoc.industry_mappings, TitleOf(d))
    IN  IF TitleOf(d) = << >> THEN [heap |-> h, kind |-> "return", val |-> a]
        ELSE IF rs.kind = "raise" \/ ri.kind = "raise"
        THEN [heap |-> h, kind |-> "raise", val |-> 0]
        ELSE [heap |-> [h EXCEPT ![a] = DictObj(("related_stocks" :> rs.val)
                                         @@ ("related_industries" :> ri.val) @@ d)],
              kind |-> "return", val |-> a]

\* StockAssociator.associate_title_with_stocks on the dict at address a
associate_title_with_stocks(h, assoc, a) ==
    LET d  == h[a].d
        rs == find_related_stocks(assoc.stock_mappings, TitleOf(d))
        ri == find_related_industries(assoc.industry_mappings, TitleOf(d))
    IN  IF TitleOf(d) = << >> THEN [heap |-> h, kind |-> "return", val |-> a]
        ELSE IF rs.kind = "raise" \/ ri.kind = "raise"
        THEN [heap |-> h, kind |-> "raise", val |-> 0]
        ELSE [heap |-> Append(h, DictObj(("related_stocks" :> rs.val)
                                         @@ ("related_industries" :> ri.val) @@ d)),
              kind |-> "return", val |-> Len(h) + 1]

\* the inner loop with the items returned as they are left out of updated_titles
RECURSIVE EnrichTitlesSkipping(_, _, _, _)
EnrichTitlesSkipping(h, assoc, addrs, out) ==
    IF addrs = << >>
    THEN [heap |-> Append(h, ListObj(out)), kind |-> "return", val |-> Len(h) + 1]
    ELSE Bind(associate_title_with_stocks(h, assoc, Head(addrs)),
              LAMBDA r : IF r.kind = "raise" THEN r
                         ELSE EnrichTitlesSkipping(r.heap, assoc, Tail(addrs),
                                  IF r.val = Head(addrs) THEN out ELSE Append(out, r.val)))

\* the inner loop: updated_titles, one enriched title per title, in order
RECURSIVE EnrichTitles(_, _, _, _)
EnrichTitles(h, assoc, addrs, out) ==
    IF addrs = << >>
    THEN [heap |-> Append(h, ListObj(out)), kind |-> "return", val |-> Len(h) + 1]
    ELSE Bind(associate_title_with_stocks(h, assoc, Head(addrs)),
              LAMBDA r : IF r.kind = "raise" THEN r
                         ELSE EnrichTitles(r.heap, assoc, Tail(addrs), Append(out, r.val)))

\* one pass of the outer loop: stat.copy() with its "titles" replaced
EnrichEntry(h, assoc, a) ==
    LET d == h[a].d
        titles == IF "titles" \in DOMAIN d THEN h[d.titles].l ELSE << >>
    IN  Bind(EnrichTitles(h, assoc, titles, << >>),
             LAMBDA r : IF r.kind = "raise" THEN r
                        ELSE [heap |-> Append(r.heap, DictObj(("titles" :> r.val) @@ d)),
                              kind |-> "return", val |-> Len(r.heap) + 1])

\* the outer loop over "stats" or over "new_titles"
RECURSIVE EnrichCollection(_, _, _, _)
EnrichCollection(h, assoc, addrs, out) ==
    IF addrs = << >>
    THEN [heap |-> Append(h, ListObj(out)), kind |-> "return", val |-> Len(h) + 1]
    ELSE Bind(EnrichEntry(h, assoc, Head(addrs)),
              LAMBDA r : IF r.kind = "raise" THEN r
                         ELSE EnrichCollection(r.heap, assoc, Tail(addrs), Append(out, r.val)))

\* news_data.get(key, [])
CollectionOf(h, d, key) == IF key \in DOMAIN d THEN h[d[key]].l ELSE << >>

\* associate_news_with_stocks on the payload at address root
associate_news_with_stocks(h, assoc, root) ==
    LET d == h[root].d
    IN  Bind(EnrichCollection(h, assoc, CollectionOf(h, d, "stats"), << >>),
          LAMBDA r1 : IF r1.kind = "raise" THEN r1 ELSE
            Bind(EnrichCollection(r1.heap, assoc, CollectionOf(h, d, "new_titles"), << >>),
              LAMBDA r2 : IF r2.kind = "raise" THEN r2 ELSE
                [heap |-> Append(r2.heap, DictObj(("stats" :> r1.val)
                                                  @@ ("new_titles" :> r2.val) @@ d)),
                 kind |-> "return", val |-> Len(r2.heap) + 1]))

AssociateTitleWithStocks ==
    /\ ret.op = "none"
    /\ stock_associator.exists
    /\ \E a \in 1..Len(heap) :
          /\ heap[a].kind = "dict"
          /\ \E r \in {associate_title_with_stocks(heap, stock_associator, a)} :
                 /\ heap' = r.heap
                 /\ ret' = Call("associate_title_with_stocks", a, r, heap)
    /\ UNCHANGED << config_file, stock_associator >>

\* the payload is the last object the caller built
AssociateNewsWithStocks ==
    /\ ret.op = "none"
    /\ heap # << >>
    /\ \E assoc \in {get_stock_associator} :
         \E r \in {associate_news_with_stocks(heap, assoc, Len(heap))} :
           /\ stock_associator' = assoc
           /\ heap' = r.heap
           /\ ret' = Call("associate_news_with_stocks", Len(heap), r, heap)
    /\ UNCHANGED config_file

(***************************************************************************)
(* The payloads a caller hands to associate_news_with_stocks.              *)
(***************************************************************************)
StatsTitlePool == { ("url" :> "u1"),
                    ("title" :> <<"a", "b">>) @@ ("url" :> "u2") }
NewTitlesPool  == { ("title" :> << >>) @@ ("url" :> "u3"),
                    ("title" :> <<"b">>) @@ ("url" :> "u4") }

Absent == [has |-> FALSE, items |-> << >>]

\* an entry: with or without a "titles" list
EntryDescs(pool) ==
    {Absent} \cup {[has |-> TRUE, items |-> t] : t \in SeqsUpTo(pool, MaxTitles)}

\* a collection: missing from the payload, or a list of entries
CollectionDescs(pool) ==
    {Absent} \cup {[has |-> TRUE, items |-> s] : s \in SeqsUpTo(EntryDescs(pool), MaxStats)}

SmallStats == [has |-> TRUE, items |->
                << [has |-> TRUE, items |-> << ("title" :> <<"a", "b">>) @@ ("url" :> "u2") >>] >>]
SmallNewTitles == [has |-> TRUE, items |->
                << [has |-> TRUE, items |-> << ("title" :> <<"b">>) @@ ("url" :> "u4") >>] >>]

PayloadDescs ==
    {[stats |-> c, new_titles |-> SmallNewTitles] : c \in CollectionDescs(StatsTitlePool)}
    \cup {[stats |-> SmallStats, new_titles |-> c] : c \in CollectionDescs(NewTitlesPool)}

AllocEntry(h, e) ==
    IF ~e.has THEN Append(h, DictObj("word" :> "w"))
    ELSE LET h1 == h \o [k \in 1..Len(e.items) |-> DictObj(e.items[k])]
             h2 == Append(h1, ListObj([k \in 1..Len(e.items) |-> Len(h) + k]))
         IN  Append(h2, DictObj(("word" :> "w") @@ ("titles" :> Len(h2))))

RECURSIVE AllocCollection(_, _, _)
AllocCollection(h, entries, addrs) ==
    IF entries = << >> THEN Append(h, ListObj(addrs))
    ELSE LET h1 == AllocEntry(h, Head(entries))
         IN  AllocCollection(h1, Tail(entries), Append(addrs, Len(h1)))

\* the caller's objects; the payload dict is the last of them
BuildPayload(p) ==
    LET h1 == IF p.stats.has THEN AllocCollection(<< >>, p.stats.items, << >>) ELSE << >>
        h2 == IF p.new_titles.has THEN AllocCollection(h1, p.new_titles.items, << >>) ELSE h1
        d1 == IF p.stats.has THEN ("stats" :> Len(h1)) @@ ("id" :> "p") ELSE ("id" :> "p")
        d2 == IF p.new_titles.has THEN ("new_titles" :> Len(h2)) @@ d1 ELSE d1
    IN  Append(h2, DictObj(d2))

IdleAnnotate == /\ news_list = << >> /\ news_before = << >> /\ pc = "idle" /\ i = 0 /\ annotated = << >>
                /\ returned = "none" /\ outcome = "none" /\ trace = << >>
IdleHtml == /\ html_content = << >> /\ news_groups = << >>
            /\ html_out = [done |-> FALSE, new_lines |-> << >>, text |-> << >>]

InitFind ==
    /\ config_file \in WellFormedFiles \cup MalformedFiles
    /\ stock_associator = NoAssociator
    /\ heap = << >>
    /\ ret = NoCall
    /\ IdleAnnotate /\ IdleHtml

NextFind ==
    \/ GetStockAssociator /\ UNCHANGED << annotVars, htmlVars >>
    \/ FindRelatedStocks /\ UNCHANGED << annotVars, htmlVars >>
    \/ FindRelatedIndustries /\ UNCHANGED << annotVars, htmlVars >>

SpecFind == InitFind /\ [][NextFind]_vars

EnrichFiles ==
    {File("object", SmallStockTable, SmallIndustryTable),
     File("absent", Missing, Missing),
     File("object", [t |-> "list", v |-> << StockEntry(1, KwAB), BadStockEntry >>], Missing)}

InitEnrich ==
    /\ config_file \in EnrichFiles
    /\ stock_associator = NoAssociator
    /\ heap \in {BuildPayload(p) : p \in PayloadDescs}
    /\ ret = NoCall
    /\ IdleAnnotate /\ IdleHtml

NextEnrich ==
    \/ GetStockAssociator /\ UNCHANGED << annotVars, htmlVars >>
    \/ AssociateTitleWithStocks /\ UNCHANGED << annotVars, htmlVars >>
    \/ AssociateNewsWithStocks /\ UNCHANGED << annotVars, htmlVars >>

SpecEnrich == InitEnrich /\ [][NextEnrich]_vars


IdleAssociator == /\ config_file = File("absent", Missing, Missing)
                  /\ stock_associator = NoAssociator /\ heap = << >> /\ ret = NoCall

(***************************************************************************)
(* mcp_enhance.py: is_mcp_available, annotate_news_with_ai.                *)
(*                                                                         *)
(* The service answers the ping with                                       *)
(*   "ok"      status 200          "status"  another status                *)
(*   "error"   requests.post raised (refused, timed out)                   *)
(* and an mcp/invoke_tool request with                                     *)
(*   "exception"    requests.post raised (refused, timed out after 5 s)    *)
(*   "status"       a status other than 200                                *)
(*   "bad_body"     200, and res.json() or the look into its value raises  *)
(*   "no_content"   200, a JSON object without result.content              *)
(*   "bad_content"  200, result.content is not JSON                        *)
(*   "ok"           200, result.content is JSON                            *)
(***************************************************************************)
ProbeAnswers == {"ok", "status", "error"}
Answers == {"exception", "status", "bad_body", "no_content", "bad_content", "ok"}

\* the probe with the status left unread
is_mcp_available_any_status(answer) == answer # "error"

is_mcp_available(answer) == answer = "ok"

ParsedAnnotation == ("event_type" :> <<"e">>) @@ ("risk_note" :> <<"r">>)
                    @@ ("benefit_sectors" :> << <<"s">>, <<"t">> >>)
ParseError == ("error" :> << "f", "a", "i", "l" >>)       \* {"error": "解析失败"}
CallError  == ("error" :> << "s", "t", "r", "(", "e", ")" >>)

SetAnnotation(item, ann) == ("ai_annotation" :> ann) @@ item

\* the loop body without its outer try: what requests.post or res.json() raises escapes
handle_response_unguarded(item, answer) ==
    CASE answer = "exception"   -> [item |-> item, slept |-> FALSE, raised |-> TRUE]
      [] answer = "status"      -> [item |-> item, slept |-> TRUE, raised |-> FALSE]
      [] answer = "bad_body"    -> [item |-> item, slept |-> FALSE, raised |-> TRUE]
      [] answer = "no_content"  -> [item |-> item, slept |-> TRUE, raised |-> FALSE]
      [] answer = "bad_content" ->
            [item |-> SetAnnotation(item, ParseError), slept |-> TRUE, raised |-> FALSE]
      [] answer = "ok" ->
            [item |-> SetAnnotation(item, ParsedAnnotation), slept |-> TRUE, raised |-> FALSE]

\* the loop body after requests.post: the item it leaves, whether time.sleep ran,
\* whether an exception left the function
handle_response(item, answer) ==
    CASE answer = "exception" ->
            [item |-> SetAnnotation(item, CallError), slept |-> FALSE, raised |-> FALSE]
      [] answer = "status"      -> [item |-> item, slept |-> TRUE, raised |-> FALSE]
      [] answer = "bad_body" ->
            [item |-> SetAnnotation(item, CallError), slept |-> FALSE, raised |-> FALSE]
      [] answer = "no_content"  -> [item |-> item, slept |-> TRUE, raised |-> FALSE]
      [] answer = "bad_content" ->
            [item |-> SetAnnotation(item, ParseError), slept |-> TRUE, raised |-> FALSE]
      [] answer = "ok" ->
            [item |-> SetAnnotation(item, ParsedAnnotation), slept |-> TRUE, raised |-> FALSE]

Event(ev, id, res) == [ev |-> ev, id |-> id, res |-> res]

\* is_mcp_available() and the early return
ProbeService ==
    /\ pc = "start"
    /\ \E answer \in ProbeAnswers :
          /\ trace' = << Event("ping", 1, answer) >>
          /\ IF is_mcp_available(answer)
             THEN pc' = "loop" /\ returned' = returned
             ELSE pc' = "done" /\ returned' = "news_list"
    /\ UNCHANGED << news_list, news_before, i, annotated, outcome >>

\* requests.post(... "mcp/invoke_tool" ..., "id": i+1, timeout=5)
SendRequest ==
    /\ pc = "loop"
    /\ i < Len(news_list)
    /\ \E answer \in Answers :
          /\ outcome' = answer
          /\ trace' = Append(trace, Event("call", i + 1, answer))
    /\ pc' = "waiting"
    /\ UNCHANGED << news_list, news_before, i, annotated, returned >>

\* the rest of the loop body
HandleResponse ==
    /\ pc = "waiting"
    /\ \E r \in {handle_response(news_list[i + 1], outcome)} :
          /\ news_list' = [news_list EXCEPT ![i + 1] = r.item]
          /\ trace' = IF r.slept THEN Append(trace, Event("sleep", i + 1, "none")) ELSE trace
          /\ IF r.raised
             THEN pc' = "raised" /\ UNCHANGED << i, annotated >>
             ELSE pc' = "loop" /\ i' = i + 1 /\ annotated' = Append(annotated, i + 1)
    /\ outcome' = "none"
    /\ UNCHANGED << news_before, returned >>

\* return annotated
ReturnAnnotated ==
    /\ pc = "loop"
    /\ i = Len(news_list)
    /\ pc' = "done"
    /\ returned' = "annotated"
    /\ UNCHANGED << news_list, news_before, i, annotated, outcome, trace >>

NewsItems == { ("title" :> <<"x">>) @@ ("platform" :> "p"),
               ("title" :> <<"y">>) @@ ("platform" :> "p")
                    @@ ("ai_annotation" :> ParsedAnnotation) }

InitAnnotate ==
    /\ news_list \in SeqsUpTo(NewsItems, MaxNews)
    /\ news_before = news_list
    /\ pc = "start" /\ i = 0 /\ annotated = << >> /\ returned = "none"
    /\ outcome = "none" /\ trace = << >>
    /\ IdleAssociator /\ IdleHtml

NextAnnotate ==
    \/ ProbeService /\ UNCHANGED << assocVars, htmlVars >>
    \/ SendRequest /\ UNCHANGED << assocVars, htmlVars >>
    \/ HandleResponse /\ UNCHANGED << assocVars, htmlVars >>
    \/ ReturnAnnotated /\ UNCHANGED << assocVars, htmlVars >>

SpecAnnotate == InitAnnotate /\ [][NextAnnotate]_vars

(***************************************************************************)
(* mcp_enhance.py: add_ai_html_blocks.                                     *)
(***************************************************************************)
\* s.find(sub) + 1: the place of the first occurrence of sub in s, 0 if none
IndexOf(sub, s) ==
    LET hits == {k \in 1..(Len(s) - Len(sub) + 1) : SubSeq(s, k, k + Len(sub) - 1) = sub}
    IN  IF hits = {} THEN 0 ELSE CHOOSE k \in hits : \A m \in hits : k <= m

\* s.split(sep)
RECURSIVE Split(_, _)
Split(s, sep) ==
    IF IndexOf(sep, s) = 0 THEN << s >>
    ELSE << SubSeq(s, 1, IndexOf(sep, s) - 1) >>
         \o Split(SubSeq(s, IndexOf(sep, s) + Len(sep), Len(s)), sep)

\* sep.join(parts)
RECURSIVE Join(_, _)
Join(parts, sep) ==
    IF parts = << >> THEN << >>
    ELSE IF Len(parts) = 1 THEN parts[1]
    ELSE parts[1] \o sep \o Join(Tail(parts), sep)

Whitespace == {" ", "\t", "\n", "\r"}

\* s.strip()
Strip(s) ==
    LET solid == {k \in 1..Len(s) : s[k] \notin Whitespace}
    IN  IF solid = {} THEN << >>
        ELSE SubSeq(s, CHOOSE k \in solid : \A m \in solid : k <= m,
                       CHOOSE k \in solid : \A m \in solid : k >= m)

\* s.startswith(prefix)
StartsWith(s, prefix) == Len(s) >= Len(prefix) /\ SubSeq(s, 1, Len(prefix)) = prefix

NL      == << "\n" >>
LiTag   == << "<", "l", "i", ">" >>                       \* <li>
HrefEq  == << "h", "r", "e", "f", "=" >>                  \* href=
QuoteGt == << "\"", ">" >>                                \* ">
EndA    == << "<", "/", "a", ">" >>                       \* </a>
OpenA   == << "<", "a" >>                                 \* <a
Gt      == << ">" >>

\* line.split('">')[1].split('</a>')[0] if '">' in line and '</a>' in line else ""
TitleMatch(line) ==
    IF Contains(QuoteGt, line) /\ Contains(EndA, line)
    THEN Split(Split(line, QuoteGt)[2], EndA)[1]
    ELSE << >>

\* dict.get(key, default)
Get(d, key, default) == IF key \in DOMAIN d THEN d[key] ELSE default

\* the f-string of the block; its markup is written as single elements
Block(ann) ==
    << "\n", "<div class=\"ai-annotation\">" >> \o Get(ann, "event_type", << >>)
    \o << "<br>" >> \o Join(Get(ann, "benefit_sectors", << >>), << ",", " " >>)
    \o << "<br>" >> \o Join(Get(ann, "small_cap_stocks", << >>), << ",", " " >>)
    \o << "<br>" >> \o Get(ann, "risk_note", << >>) \o << "</div>", "\n" >>

\* group.get("news", [])
NewsOf(group) == IF group.has THEN group.news ELSE << >>

\* the items of every group, in the order the two inner loops visit them
RECURSIVE AllItems(_, _)
AllItems(groups, g) ==
    IF g > Len(groups) THEN << >>
    ELSE [k \in 1..Len(NewsOf(groups[g])) |-> [g |-> g, k |-> k, item |-> NewsOf(groups[g])[k]]]
         \o AllItems(groups, g + 1)

\* the condition of lines 78 and 80
GetsBlock(line, item) ==
    /\ Contains(TitleMatch(line), Get(item, "title", << >>))
    /\ "ai_annotation" \in DOMAIN item
    /\ item.ai_annotation # << >>
    /\ "error" \notin DOMAIN item.ai_annotation

\* what one pass of the outer loop appends to new_lines; n is the line's number
LineOutput(line, n, groups) ==
    << [kind |-> "line", text |-> line, n |-> n, g |-> 0, k |-> 0] >>
    \o (IF StartsWith(Strip(line), LiTag) /\ Contains(HrefEq, line)
        THEN LET hit == SelectSeq(AllItems(groups, 1), LAMBDA e : GetsBlock(line, e.item))
             IN  [m \in 1..Len(hit) |->
                    [kind |-> "block", text |-> Block(hit[m].item.ai_annotation),
                     n |-> n, g |-> hit[m].g, k |-> hit[m].k]]
        ELSE << >>)

RECURSIVE NewLines(_, _, _)
NewLines(lines, n, groups) ==
    IF n > Len(lines) THEN << >>
    ELSE LineOutput(lines[n], n, groups) \o NewLines(lines, n + 1, groups)

\* add_ai_html_blocks: new_lines (each element with the input line and the item it
\* came from) and the text returned
add_ai_html_blocks(html, groups) ==
    LET new_lines == NewLines(Split(html, NL), 1, groups)
    IN  [done |-> TRUE, new_lines |-> new_lines,
         text |-> Join([m \in 1..Len(new_lines) |-> new_lines[m].text], NL)]

NotRun == [done |-> FALSE, new_lines |-> << >>, text |-> << >>]

AddAiHtmlBlocks ==
    /\ ~html_out.done
    /\ html_out' = add_ai_html_blocks(html_content, news_groups)
    /\ UNCHANGED << html_content, news_groups >>

\* report lines: <li> or not, indented or not, a link with a double-quoted or a
\* single-quoted attribute or no link, the link closed on the line or not
LineStarts == { LiTag, << " " >> \o LiTag, << "<", "p", ">" >> }
LineLinks  == { OpenA \o << " " >> \o HrefEq \o << "\"", "u", "\"", ">" >>,
                OpenA \o << " " >> \o HrefEq \o << "'", "u", "'", ">" >>,
                << >> }
LineTexts  == { << "x" >>, << "y" >> }
LineEnds   == { EndA, << >> }

ReportLines == {s \o l \o t \o e : s \in LineStarts, l \in LineLinks, t \in LineTexts,
                                   e \in LineEnds}

Reports == {Join(ls, NL) : ls \in SeqsUpTo(ReportLines, MaxLines)}

SmallReport == LiTag \o OpenA \o << " " >> \o HrefEq \o << "\"", "u", "\"", ">", "x" >> \o EndA

ErrorAnnotation == ("error" :> << "e" >>)

ReportItems ==
    { ("title" :> t) @@ ("ai_annotation" :> ann) :
         t \in {<< "x" >>, << "y", "x" >>, << "y" >>},
         ann \in {ParsedAnnotation, ErrorAnnotation} }
    \cup { ("title" :> << "x" >>), ("ai_annotation" :> ParsedAnnotation),
           ("title" :> << "x" >>) @@ ("ai_annotation" :> << >>) }

Group(items) == [has |-> TRUE, news |-> items]
NoNews == [has |-> FALSE, news |-> << >>]

SmallGroups == << Group(<< ("title" :> << "y" >>) @@ ("ai_annotation" :> ParsedAnnotation),
                           ("title" :> << "x" >>) @@ ("ai_annotation" :> ErrorAnnotation) >>) >>

InitReport ==
    /\ \/ html_content \in Reports /\ news_groups = SmallGroups
       \/ /\ html_content = SmallReport
          /\ news_groups \in {<< NoNews, Group(items) >> : items \in SeqsUpTo(ReportItems, MaxItems)}
    /\ html_out = NotRun
    /\ IdleAssociator /\ IdleAnnotate

NextReport == AddAiHtmlBlocks /\ UNCHANGED << assocVars, annotVars >>

SpecReport == InitReport /\ [][NextReport]_vars

(***************************************************************************)
(* Claims about stock_association.py.                                      *)
(***************************************************************************)
FoundStocks     == ret.op = "find_related_stocks" /\ ret.kind = "return"
FoundIndustries == ret.op = "find_related_industries" /\ ret.kind = "return"

NonIncreasing(r) == \A k \in 1..(Len(r) - 1) : r[k].strength >= r[k + 1].strength

\* C1: find_related_stocks returns at most 3 entries and find_related_industries
\* at most 2, and in each returned list no entry is weaker than the one after it.
C1_AtMostTopSorted ==
    /\ FoundStocks => Len(ret.val) <= 3 /\ NonIncreasing(ret.val)
    /\ FoundIndustries => Len(ret.val) <= 2 /\ NonIncreasing(ret.val)

\* four stocks qualify, three are returned, and their strengths differ
C1_Witness ==
    /\ FoundStocks
    /\ Len(Qualifying(stock_associator.stock_mappings, ret.arg)) = 4
    /\ Len(ret.val) = 3
    /\ ret.val[1].strength > ret.val[3].strength

\* r holds the first n of q's elements in the order "stronger first, equal
\* strength in q's order": f names the place in q of each element of r
IsStableTop(r, q, n) ==
    /\ Len(r) = (IF Len(q) < n THEN Len(q) ELSE n)
    /\ \E f \in [1..Len(r) -> 1..Len(q)] :
          /\ \A j \in 1..Len(r) : r[j] = q[f[j]]
          /\ \A j, k \in 1..Len(r) :
                j < k => \/ q[f[j]].strength > q[f[k]].strength
                         \/ q[f[j]].strength = q[f[k]].strength /\ f[j] < f[k]
          /\ \A m \in 1..Len(q) : \A j \in 1..Len(r) :
                (\A k \in 1..Len(r) : f[k] # m) =>
                    \/ q[m].strength < q[f[j]].strength
                    \/ q[m].strength = q[f[j]].strength /\ m > f[j]

\* C2: the returned list is the first 3 (2) of the qualifying entries ordered by
\* descending strength, entries of equal strength in the table's order.
C2_StableTop ==
    /\ FoundStocks =>
          IsStableTop(ret.val, Qualifying(stock_associator.stock_mappings, ret.arg), 3)
    /\ FoundIndustries =>
          IsStableTop(ret.val, Qualifying(stock_associator.industry_mappings, ret.arg), 2)

\* a stronger entry is returned before two of equal strength, and a fourth is left out
C2_Witness ==
    /\ FoundStocks
    /\ Len(Qualifying(stock_associator.stock_mappings, ret.arg)) = 4
    /\ Len(ret.val) = 3
    /\ ret.val[1].strength > ret.val[2].strength
    /\ ret.val[2].strength = ret.val[3].strength
    /\ ret.val[1].stock_code > ret.val[2].stock_code

Range(f) == {f[k] : k \in DOMAIN f}

\* the table entry a returned entry was made from
EntryOf(table, r) ==
    CHOOSE e \in Range(table.v) :
        e.stock_code = r.stock_code /\ e.sector_name = r.sector_name

DistinctMatches(e, title) ==
    Cardinality({kw \in Range(e.keywords) : Contains(Lower(kw), Lower(title))})

\* C3: the strength of a returned entry is the number of distinct keywords of its
\* table entry that occur in the title.
C3_StrengthCountsDistinct ==
    /\ FoundStocks => \A k \in 1..Len(ret.val) :
          ret.val[k].strength =
              DistinctMatches(EntryOf(stock_associator.stock_mappings, ret.val[k]), ret.arg)
    /\ FoundIndustries => \A k \in 1..Len(ret.val) :
          ret.val[k].strength =
              DistinctMatches(EntryOf(stock_associator.industry_mappings, ret.val[k]), ret.arg)

\* C6: after construction from a missing or malformed file both tables are empty
\* and every lookup returns an empty list without raising.
C6_MalformedNeverFatal ==
    (stock_associator.exists /\ config_file \in MalformedFiles) =>
        /\ stock_associator.stock_mappings = EmptyList
        /\ stock_associator.industry_mappings = EmptyList
        /\ ret.op \in {"find_related_stocks", "find_related_industries"} =>
              ret.kind = "return" /\ ret.val = << >>

EnrichCall == ret.op \in {"associate_title_with_stocks", "associate_news_with_stocks"}

\* C7: after associate_title_with_stocks or associate_news_with_stocks every object
\* of the caller is as it was before the call, and a dict whose title is missing
\* or empty is returned as it is.
C7_InputsUntouched ==
    EnrichCall =>
        /\ Len(heap) >= Len(ret.pre)
        /\ \A a \in 1..Len(ret.pre) : heap[a] = ret.pre[a]
        /\ (ret.op = "associate_title_with_stocks" /\ TitleOf(ret.pre[ret.arg].d) = << >>) =>
              /\ ret.kind = "return"
              /\ ret.val = ret.arg
              /\ heap = ret.pre

\* a payload with a titled item went through associate_news_with_stocks and came
\* back with the fields attached to a copy
C7_Witness ==
    /\ ret.op = "associate_news_with_stocks"
    /\ ret.kind = "return"
    /\ \E a \in 1..Len(ret.pre) : ret.pre[a].kind = "dict" /\ TitleOf(ret.pre[a].d) # << >>
    /\ \E a \in (Len(ret.pre) + 1)..Len(heap) :
          heap[a].kind = "dict" /\ "related_stocks" \in DOMAIN heap[a].d
                                /\ heap[a].d.related_stocks # << >>

\* what associate_title_with_stocks makes of the dict d
Enriched(d) ==
    IF TitleOf(d) = << >> THEN d
    ELSE ("related_stocks" :>
              find_related_stocks(stock_associator.stock_mappings, TitleOf(d)).val)
         @@ ("related_industries" :>
              find_related_industries(stock_associator.industry_mappings, TitleOf(d)).val)
         @@ d

\* the output collection under key mirrors the input collection under key
SameStructure(key) ==
    LET din  == ret.pre[ret.arg].d
        dout == heap[ret.val].d
        lin  == CollectionOf(ret.pre, din, key)
    IN  /\ key \in DOMAIN dout
        /\ heap[dout[key]].kind = "list"
        /\ LET lout == heap[dout[key]].l
           IN  /\ Len(lout) = Len(lin)
               /\ \A s \in 1..Len(lin) :
                     LET ein  == ret.pre[lin[s]].d
                         eout == heap[lout[s]].d
                         tin  == CollectionOf(ret.pre, ein, "titles")
                     IN  /\ "titles" \in DOMAIN eout
                         /\ eout.word = ein.word
                         /\ LET tout == heap[eout.titles].l
                            IN  /\ Len(tout) = Len(tin)
                                /\ \A t \in 1..Len(tin) :
                                      heap[tout[t]].d = Enriched(ret.pre[tin[t]].d)

\* C8: the output "stats" and "new_titles" have the input's entries in the input's
\* order, each entry its titles in order, the i-th the enrichment of the i-th.
C8_StructurePreserved ==
    (ret.op = "associate_news_with_stocks" /\ ret.kind = "return") =>
        SameStructure("stats") /\ SameStructure("new_titles")

\* two stats entries, the first with an item left as it is followed by an enriched one
C8_Witness ==
    /\ ret.op = "associate_news_with_stocks"
    /\ ret.kind = "return"
    /\ LET lin == CollectionOf(ret.pre, ret.pre[ret.arg].d, "stats")
       IN  /\ Len(lin) = 2
           /\ LET tin == CollectionOf(ret.pre, ret.pre[lin[1]].d, "titles")
              IN  /\ Len(tin) = 2
                  /\ TitleOf(ret.pre[tin[1]].d) = << >>
                  /\ TitleOf(ret.pre[tin[2]].d) # << >>
                  /\ Enriched(ret.pre[tin[2]].d).related_stocks # << >>


(***************************************************************************)
(* Claims about mcp_enhance.py.                                            *)
(***************************************************************************)
ProbeFailed == trace # << >> /\ trace[1].res \in {"status", "error"}

Calls == SelectSeq(trace, LAMBDA e : e.ev = "call")

\* C4: when the probe fails, by a network error or by a status other than 200,
\* annotate_news_with_ai returns its argument, no item has changed and no
\* mcp/invoke_tool request was sent.
C4_FailedProbeSkips ==
    ProbeFailed =>
        /\ pc = "done"
        /\ returned = "news_list"
        /\ news_list = news_before
        /\ Calls = << >>

\* the service answered the ping with a non-success status, the list had items
C4_Witness ==
    /\ pc = "done"
    /\ trace[1].res = "status"
    /\ Len(news_before) >= 2
    /\ \E k \in 1..Len(news_before) : "ai_annotation" \notin DOMAIN news_before[k]

HasError(item) ==
    "ai_annotation" \in DOMAIN item /\ "error" \in DOMAIN item.ai_annotation

\* C5: with a successful probe the function never raises, whatever the service
\* answers; it sends one request per item, in order, returns the items in the
\* input's order, and an item whose request raised or whose content did not
\* parse carries an annotation with an error field.
C5_FailuresIsolated ==
    /\ pc # "raised"
    /\ returned = "annotated" =>
          /\ annotated = [k \in 1..Len(news_before) |-> k]
          /\ Len(news_list) = Len(news_before)
          /\ Len(Calls) = Len(news_before)
          /\ \A k \in 1..Len(news_before) :
                /\ Calls[k].id = k
                /\ news_list[k].title = news_before[k].title
                /\ Calls[k].res \in {"exception", "bad_body", "bad_content"}
                      => HasError(news_list[k])

\* the first request timed out, the second came back unparsable, the third was fine
C5_Witness ==
    /\ returned = "annotated"
    /\ Len(news_before) = 3
    /\ Calls[1].res = "exception"
    /\ Calls[2].res = "bad_content"
    /\ Calls[3].res = "ok"
    /\ ~HasError(news_list[3])

\* C9: between any two consecutive mcp/invoke_tool requests the delay runs,
\* whether the earlier request succeeded, answered a non-success status or raised.
C9_DelayBetweenCalls ==
    \A j, k \in 1..Len(trace) :
        (j < k /\ trace[j].ev = "call" /\ trace[k].ev = "call") =>
            \E m \in (j + 1)..(k - 1) : trace[m].ev = "sleep"

\* the text of the line's link: from the end of the <a ...> tag to </a>, or to the
\* end of the line when the link is not closed on it
AnchorText(line) ==
    LET fromA == SubSeq(line, IndexOf(OpenA, line), Len(line))
        rest  == SubSeq(fromA, IndexOf(Gt, fromA) + 1, Len(fromA))
    IN  IF IndexOf(OpenA, line) = 0 THEN << >>
        ELSE IF IndexOf(EndA, rest) = 0 THEN rest
        ELSE SubSeq(rest, 1, IndexOf(EndA, rest) - 1)

IsLinkItem(line) == StartsWith(Strip(line), LiTag) /\ Contains(HrefEq, line)

SuccessfulAnnotation(item) ==
    /\ "ai_annotation" \in DOMAIN item
    /\ item.ai_annotation # << >>
    /\ "error" \notin DOMAIN item.ai_annotation

\* C10: every input line passes through unchanged and in order; a block stands
\* only directly after a line that starts with <li> and holds a link, and only
\* for an item whose title contains that line's anchor text and whose annotation
\* is present, non-empty and without an error field.
C10_BlocksOnlyForMatchingAnnotated ==
    html_out.done =>
        LET out   == html_out.new_lines
            lines == Split(html_content, NL)
            kept  == SelectSeq(out, LAMBDA e : e.kind = "line")
        IN  /\ [m \in 1..Len(kept) |-> kept[m].text] = lines
            /\ \A m \in 1..Len(out) :
                  out[m].kind = "block" =>
                      /\ m > 1
                      /\ out[m - 1].n = out[m].n
                      /\ IsLinkItem(lines[out[m].n])
                      /\ LET item == NewsOf(news_groups[out[m].g])[out[m].k]
                         IN  /\ Contains(AnchorText(lines[out[m].n]),
                                         Get(item, "title", << >>))
                             /\ SuccessfulAnnotation(item)

====
